---- MODULE Spec2Model ----
(***************************************************************************)
(* A model of the ARC grid-property engine: the structural validator       *)
(* (sanityCheck), the row / column / grid analyzers, the two revisions of  *)
(* solve_sample (the property-map solver and the heuristic chain solver),  *)
(* the entry point solveTask, the grid functions applied to a grid on     *)
(* their own, and the aggregator with its frequency table.                 *)
(*                                                                         *)
(* JavaScript values are encoded as follows.  A grid handed to an analyzer *)
(* is a sequence of rows, a row a sequence of cells, a cell an integer;    *)
(* the variable grid is the matrix argument of a grid function;            *)
(* reading past the end of an array gives Undef.  A task as it reaches the *)
(* validator is a tree of tagged records: the tag `kind` is the class name *)
(* Object.prototype.toString reports for the value.                        *)
(***************************************************************************)
EXTENDS Integers, Sequences, FiniteSets, TLC

VARIABLES rev, task, training_sample, pc, err, selected, sample, orig,
          patternDetected, step, result, grid, aggregate, propertyTable,
          first, task_files, taskData, visited

vars == <<rev, task, training_sample, pc, err, selected, sample, orig,
          patternDetected, step, result, grid, aggregate, propertyTable,
          first, task_files, taskData, visited>>

----------------------------------------------------------------------------
(* Bounds of the model. *)

\* longest `train` list of a task
MaxTrain == 2
\* most rows of a grid
MaxRows == 3
\* most cells of a row
MaxCols == 3
\* most cells of a grid
MaxCells == 6

----------------------------------------------------------------------------
(* JavaScript primitives the analyzers rest on. *)

\* the value of an out-of-range array read
Undef == -1

\* row[j-1] for the 1-based j
Cell(row, j) == IF j \in 1..Len(row) THEN row[j] ELSE Undef

\* _.isEqual on two arrays of primitives, or on two arrays of such arrays
isEqual(a, b) == a = b

Max(S) == CHOOSE x \in S : \A y \in S : y <= x

\* _.unzip: as many groups as the longest row has cells, short rows padded
\* with undefined
unzip(matrix) ==
    IF Len(matrix) = 0 THEN <<>>
    ELSE LET length == Max({Len(matrix[r]) : r \in 1..Len(matrix)})
         IN  [i \in 1..length |-> [r \in 1..Len(matrix) |-> Cell(matrix[r], i)]]

RECURSIVE SeqContains(_, _)
SeqContains(s, x) ==
    IF s = <<>> THEN FALSE
    ELSE IF Head(s) = x THEN TRUE ELSE SeqContains(Tail(s), x)

\* [...new Set(array)]: the distinct values in first-seen order
RECURSIVE SetSpread(_, _)
SetSpread(seen, array) ==
    IF array = <<>> THEN seen
    ELSE IF SeqContains(seen, Head(array)) THEN SetSpread(seen, Tail(array))
         ELSE SetSpread(Append(seen, Head(array)), Tail(array))

\* array.filter(x => x !== 0)
RECURSIVE FilterNonZero(_)
FilterNonZero(r) ==
    IF r = <<>> THEN <<>>
    ELSE IF Head(r) # 0 THEN <<Head(r)>> \o FilterNonZero(Tail(r))
         ELSE FilterNonZero(Tail(r))

\* matrix.flat(2) of an array of rows
RECURSIVE Flat(_)
Flat(matrix) == IF matrix = <<>> THEN <<>> ELSE Head(matrix) \o Flat(Tail(matrix))

\* punctuation of JSON text, as tokens that are no cell value
LBracket == -2
RBracket == -3
Comma == -4
Null == -5

RECURSIVE JoinTokens(_)
JoinTokens(parts) ==
    IF parts = <<>> THEN <<>>
    ELSE IF Len(parts) = 1 THEN Head(parts)
         ELSE Head(parts) \o <<Comma>> \o JoinTokens(Tail(parts))

\* JSON.stringify of a row of numbers (undefined is written null)
StringifyRow(r) ==
    <<LBracket>>
    \o JoinTokens([j \in 1..Len(r) |-> <<IF r[j] = Undef THEN Null ELSE r[j]>>])
    \o <<RBracket>>

\* JSON.stringify of a grid
Stringify(matrix) ==
    <<LBracket>>
    \o JoinTokens([i \in 1..Len(matrix) |-> StringifyRow(matrix[i])])
    \o <<RBracket>>

\* a / b in IEEE arithmetic for naturals a, b, kept as the pair and read by
\* the three tests the code makes of it
Quotient(a, b) == [num |-> a, den |-> b]
IsNaN(q) == q.num = 0 /\ q.den = 0
IsInfinite(q) == q.num > 0 /\ q.den = 0
\* q === Math.floor(q)
EqualsItsFloor(q) ==
    IF q.den = 0 THEN IsInfinite(q) ELSE q.num % q.den = 0
\* q < 1.0
LessThanOne(q) == q.den # 0 /\ q.num < q.den
\* q > 1.0
GreaterThanOne(q) == IsInfinite(q) \/ (q.den # 0 /\ q.num > q.den)
\* p === q
SameNumber(p, q) ==
    IF IsNaN(p) \/ IsNaN(q) THEN FALSE
    ELSE IF p.den = 0 \/ q.den = 0 THEN p.den = 0 /\ q.den = 0
         ELSE p.num * q.den = q.num * p.den

----------------------------------------------------------------------------
(* rows: the Row Analyzer.  A sample is [input |-> grid, output |-> grid]. *)

getNumberOfInputRows(s) == Len(s.input[1])
getNumberOfOutputRows(s) == Len(s.output[1])
getInputOutputRowScalingFactor(s) ==
    Quotient(getNumberOfInputRows(s), getNumberOfOutputRows(s))
getOutputInputRowScalingFactor(s) ==
    Quotient(getNumberOfOutputRows(s), getNumberOfInputRows(s))
getOutputRow(s, row) == IF row \in 1..Len(s.output) THEN s.output[row] ELSE <<Undef>>
areInputAndOutputRowsOfTheSameSize(s) ==
    getNumberOfInputRows(s) = getNumberOfOutputRows(s)
areThereMoreInputRowsThanOutputRows(s) ==
    getNumberOfInputRows(s) > getNumberOfOutputRows(s)
isTheOutputOneRowHigh(s) == Len(s.output) = 1
\* variant: the output row is read at index 0 of the 1-based getOutputRow
doesTheOutputRowMatchRowZero(s) ==
    0 = Cardinality({i \in 1..Len(s.input) : ~isEqual(s.input[i], getOutputRow(s, 0))})
doesTheOutputRowMatchAnyRowsOfTheInput(s) ==
    0 = Cardinality({i \in 1..Len(s.input) : ~isEqual(s.input[i], getOutputRow(s, 1))})
areAllRowsEqual(matrix) ==
    0 = Cardinality({i \in 1..Len(matrix) : ~isEqual(matrix[i], matrix[1])})
\* the returned grid when the three tests pass, else no value (undefined)
processInputAndOutputHavingRowsOfTheSameSize(s) ==
    isTheOutputOneRowHigh(s)
    /\ doesTheOutputRowMatchAnyRowsOfTheInput(s)
    /\ areAllRowsEqual(s.input)
isRowAllBlack(r) == 0 = Cardinality({j \in 1..Len(r) : r[j] # 0})
isRowAllColored(r) == \A j \in 1..Len(r) : r[j] # 0
isRowAllThisOneColor(r, color) ==
    IF color = 0 THEN FALSE ELSE \A j \in 1..Len(r) : r[j] = color
rowsColorsBesidesBlack(r) == SetSpread(<<>>, FilterNonZero(r))

----------------------------------------------------------------------------
(* columns: the Column Analyzer. *)

getNumberOfInputColumns(s) == Len(s.input)
getNumberOfOutputColumns(s) == Len(s.output)
getInputColumn(s, column) == [i \in 1..Len(s.input) |-> Cell(s.input[i], column)]
getOutputColumn(s, column) == [i \in 1..Len(s.output) |-> Cell(s.output[i], column)]
areInputAndOutputColumnsOfTheSameSize(s) ==
    getNumberOfInputColumns(s) = getNumberOfOutputColumns(s)
areThereMoreInputColumnsThanOutputColumns(s) ==
    getNumberOfInputColumns(s) > getNumberOfOutputColumns(s)
isTheOutputOneColumnWide(s) == Len(s.output[1]) = 1
doesTheOutputColumnMatchAnyColumnsOfTheInput(s) ==
    LET outputColumn == getOutputColumn(s, 1)
        numberOfInputColumns == getNumberOfInputColumns(s)
    IN  \E column \in 1..numberOfInputColumns :
            isEqual(getInputColumn(s, column), outputColumn)
areAllColumnsEqual(matrix) ==
    LET matrixTranspose == unzip(matrix)
    IN  0 = Cardinality({i \in 1..Len(matrixTranspose) :
                            ~isEqual(matrixTranspose[i], matrixTranspose[1])})
\* variant: the columns of the input not required to be equal
processColumnsWithoutAllColumnsEqual(s) ==
    isTheOutputOneColumnWide(s)
    /\ doesTheOutputColumnMatchAnyColumnsOfTheInput(s)
processInputAndOutputHavingColumnsOfTheSameSize(s) ==
    isTheOutputOneColumnWide(s)
    /\ doesTheOutputColumnMatchAnyColumnsOfTheInput(s)
    /\ areAllColumnsEqual(s.input)
\* the two column scaling factors the grid analyzer calls: the mirror of the
\* row ones
getInputOutputColumnScalingFactor(s) ==
    Quotient(getNumberOfInputColumns(s), getNumberOfOutputColumns(s))
getOutputInputColumnScalingFactor(s) ==
    Quotient(getNumberOfOutputColumns(s), getNumberOfInputColumns(s))

----------------------------------------------------------------------------
(* grids: the Grid Analyzer. *)

doInputAndOutputGridsHaveTheSameDimensions(s) ==
    areInputAndOutputColumnsOfTheSameSize(s) /\ areInputAndOutputRowsOfTheSameSize(s)
\* variant: the two grids compared as String(grid), which drops the brackets
areInputAndOutputGridsIdenticalAsText(s) ==
    JoinTokens([i \in 1..Len(s.input) |-> JoinTokens([j \in 1..Len(s.input[i]) |-> <<s.input[i][j]>>])])
    = JoinTokens([i \in 1..Len(s.output) |-> JoinTokens([j \in 1..Len(s.output[i]) |-> <<s.output[i][j]>>])])
areInputAndOutputGridsIdentical(s) == Stringify(s.input) = Stringify(s.output)
\* variant: the input over output factor compared with > 1.0
isInputGridScaledDownByFactorAboveOne(s) ==
    /\ EqualsItsFloor(getInputOutputRowScalingFactor(s))
    /\ GreaterThanOne(getInputOutputRowScalingFactor(s))
    /\ SameNumber(getInputOutputRowScalingFactor(s), getInputOutputColumnScalingFactor(s))
isInputGridScaledDownByIntegerFactor(s) ==
    /\ EqualsItsFloor(getInputOutputRowScalingFactor(s))
    /\ LessThanOne(getInputOutputRowScalingFactor(s))
    /\ SameNumber(getInputOutputRowScalingFactor(s), getInputOutputColumnScalingFactor(s))
\* variant: the column factor left out of the test
isInputGridScaledUpInRows(s) ==
    /\ EqualsItsFloor(getOutputInputRowScalingFactor(s))
    /\ GreaterThanOne(getOutputInputRowScalingFactor(s))
\* variant: the factor compared with >= 1.0
isInputGridScaledUpByFactorFromOne(s) ==
    /\ EqualsItsFloor(getOutputInputRowScalingFactor(s))
    /\ ~LessThanOne(getOutputInputRowScalingFactor(s))
    /\ ~IsNaN(getOutputInputRowScalingFactor(s))
    /\ SameNumber(getOutputInputRowScalingFactor(s), getOutputInputColumnScalingFactor(s))
isInputGridScaledUpByIntegerFactor(s) ==
    /\ EqualsItsFloor(getOutputInputRowScalingFactor(s))
    /\ GreaterThanOne(getOutputInputRowScalingFactor(s))
    /\ SameNumber(getOutputInputRowScalingFactor(s), getOutputInputColumnScalingFactor(s))
isInputSquare(s) == getNumberOfInputRows(s) = getNumberOfInputColumns(s)
isOutputSquare(s) == getNumberOfOutputRows(s) = getNumberOfOutputColumns(s)
areInputAndOutputSquare(s) == isInputSquare(s) /\ isOutputSquare(s)
areNeitherInputNorOutputSquare(s) == ~isInputSquare(s) /\ ~isOutputSquare(s)
areInputSquareAndOutputNotSquare(s) == isInputSquare(s) /\ ~isOutputSquare(s)
areInputNotSquareAndOutputSquare(s) == ~isInputSquare(s) /\ isOutputSquare(s)

areAllCellsBlack(matrix) ==
    0 = Cardinality({i \in 1..Len(matrix) : ~isRowAllBlack(matrix[i])})
areAllCellsColored(matrix) ==
    0 = Cardinality({i \in 1..Len(matrix) : ~isRowAllColored(matrix[i])})
areAllCellsTheSameColor(matrix) ==
    0 = Cardinality({i \in 1..Len(matrix) :
                        ~isRowAllThisOneColor(matrix[i], Cell(matrix[1], 1))})
RECURSIVE ConcatRowColors(_)
ConcatRowColors(matrix) ==
    IF matrix = <<>> THEN <<>>
    ELSE rowsColorsBesidesBlack(Head(matrix)) \o ConcatRowColors(Tail(matrix))
areAllCellsOneColorOrBlack(matrix) ==
    1 = Len(SetSpread(<<>>, ConcatRowColors(matrix)))
\* variant: the colours counted with their repetitions
areAllCellsNColorsOrBlackByLength(matrix, n) ==
    n = Len(ConcatRowColors(matrix))
areAllCellsNColorsOrBlack(matrix, n) ==
    n = Len(SetSpread(<<>>, ConcatRowColors(matrix)))
gridsColorsBesidesBlack(matrix) == FilterNonZero(SetSpread(<<>>, Flat(matrix)))
areAllInputCellsBlack(s) == areAllCellsBlack(s.input)
areAllOutputCellsBlack(s) == areAllCellsBlack(s.output)
areAllInputCellsColored(s) == areAllCellsColored(s.input)
areAllOutputCellsColored(s) == areAllCellsColored(s.output)
areAllInputCellsTheSameColor(s) == areAllCellsTheSameColor(s.input)
areAllOutputCellsTheSameColor(s) == areAllCellsTheSameColor(s.output)
areAllInputCellsOneColorOrBlack(s) == areAllCellsOneColorOrBlack(s.input)
areAllOutputCellsOneColorOrBlack(s) == areAllCellsOneColorOrBlack(s.output)
areAllInputAndOutputCellsOneColorOrBlack(s) ==
    /\ areAllCellsOneColorOrBlack(s.input)
    /\ areAllCellsOneColorOrBlack(s.output)
    /\ isEqual(gridsColorsBesidesBlack(s.input), gridsColorsBesidesBlack(s.output))
areAllInputCellsTwoColorsOrBlack(s) == areAllCellsNColorsOrBlack(s.input, 2)
areAllOutputCellsTwoColorsOrBlack(s) == areAllCellsNColorsOrBlack(s.output, 2)
areAllInputAndOutputCellsTwoColorsOrBlack(s) ==
    /\ areAllCellsNColorsOrBlack(s.input, 2)
    /\ areAllCellsNColorsOrBlack(s.output, 2)
    /\ isEqual(gridsColorsBesidesBlack(s.input), gridsColorsBesidesBlack(s.output))

\* variant: as many groups as the matrix has rows, right for square grids only
transposeUpToRowCount(matrix) ==
    [i \in 1..Len(matrix) |-> [r \in 1..Len(matrix) |-> Cell(matrix[r], i)]]
transpose(matrix) == unzip(matrix)

\* a property key that is an array index: String(row) of a one-cell row
IsIndexKey(r) == Len(r) = 1 /\ r[1] >= 0
RECURSIVE SelectRows(_, _)
SelectRows(rs, indexKeyed) ==
    IF rs = <<>> THEN <<>>
    ELSE IF IsIndexKey(Head(rs)) = indexKeyed
         THEN <<Head(rs)>> \o SelectRows(Tail(rs), indexKeyed)
         ELSE SelectRows(Tail(rs), indexKeyed)
RECURSIVE Ascending(_)
Ascending(S) ==
    IF S = {} THEN <<>>
    ELSE LET m == CHOOSE x \in S : \A y \in S : x <= y
         IN  <<<<m>>>> \o Ascending(S \ {m})
\* Object.values of the object keyed by String(row): index keys first, in
\* ascending order, then the other keys in insertion order
ObjectValues(rs) ==
    LET distinct == SetSpread(<<>>, rs)
        indexed == SelectRows(distinct, TRUE)
    IN  Ascending({indexed[i][1] : i \in 1..Len(indexed)})
        \o SelectRows(distinct, FALSE)
\* variant: the matrix returned as it came
dedupRowsNoOp(matrix) == matrix
\* variant: the guard on the columns left out
dedupRowsUnguarded(matrix) == ObjectValues(matrix)
dedupRows(matrix) ==
    IF ~areAllColumnsEqual(matrix) THEN matrix ELSE ObjectValues(matrix)
dedupColumns(matrix) ==
    IF ~areAllRowsEqual(matrix) THEN matrix
    ELSE LET dedupedRow1 == SetSpread(<<>>, matrix[1])
         IN  [i \in 1..Len(matrix) |-> dedupedRow1]

----------------------------------------------------------------------------
(* Task values as the validator meets them. *)

NumberRow == [kind |-> "Number", cells |-> <<>>]
ArrayRow(cells) == [kind |-> "Array", cells |-> cells]
NumberGrid == [kind |-> "Number", rows |-> <<>>]
ArrayGrid(rows) == [kind |-> "Array", rows |-> rows]
NumberSample ==
    [kind |-> "Number", hasInput |-> FALSE, input |-> NumberGrid,
     hasOutput |-> FALSE, output |-> NumberGrid]
ObjectSample(hasInput, input, hasOutput, output) ==
    [kind |-> "Object", hasInput |-> hasInput, input |-> input,
     hasOutput |-> hasOutput, output |-> output]
ListValue(kind, elems) == [kind |-> kind, elems |-> elems]
NoList == ListValue("Undefined", <<>>)
PlainTask(kind) ==
    [kind |-> kind, hasOther |-> FALSE, hasTrain |-> FALSE, train |-> NoList,
     hasTest |-> FALSE, test |-> NoList]
ObjectTask(hasOther, hasTrain, train, hasTest, test) ==
    [kind |-> "Object", hasOther |-> hasOther, hasTrain |-> hasTrain,
     train |-> train, hasTest |-> hasTest, test |-> test]

isElementAnObject(el) == el.kind = "Object"
isElementAnArray(el) == el.kind = "Array"
isArrayOfArrays(arr) ==
    Cardinality({i \in 1..Len(arr.rows) : ~isElementAnArray(arr.rows[i])}) = 0
\* Object.keys(task).length
NumberOfKeys(t) ==
    (IF t.hasOther THEN 1 ELSE 0) + (IF t.hasTrain THEN 1 ELSE 0)
    + (IF t.hasTest THEN 1 ELSE 0)
\* task.train.filter(test).length > 0
SomeTrain(t, Test(_)) == \E i \in 1..Len(t.train.elems) : Test(t.train.elems[i])

MissingInput(t) == ~t.hasInput
MissingOutput(t) == ~t.hasOutput
InputNotArray(t) == t.hasInput /\ ~isElementAnArray(t.input)
OutputNotArray(t) == t.hasOutput /\ ~isElementAnArray(t.output)
\* t.input.length < 1: the length of a number is undefined, and no less than 1
InputEmpty(t) == isElementAnArray(t.input) /\ Len(t.input.rows) < 1
OutputEmpty(t) == isElementAnArray(t.output) /\ Len(t.output.rows) < 1
InputRowsNotArrays(t) == ~isArrayOfArrays(t.input)
OutputRowsNotArrays(t) == ~isArrayOfArrays(t.output)
NotAnObject(t) == ~isElementAnObject(t)
\* the reads that throw a TypeError: .length of an undefined input or output,
\* and .filter of one that is undefined or no array
InputLengthThrows(t) == ~t.hasInput
OutputLengthThrows(t) == ~t.hasOutput
InputFilterThrows(t) == ~t.hasInput \/ ~isElementAnArray(t.input)
OutputFilterThrows(t) == ~t.hasOutput \/ ~isElementAnArray(t.output)
\* stands for an exception leaving sanityCheck
TypeError == "TypeError"

\* variant: the array test of the inputs made before the test for a missing
\* output
sanityCheckInputsFirst(t) ==
    IF t.kind = "Null" THEN "missing task"
    ELSE IF ~isElementAnObject(t) THEN "task should be an object"
    ELSE IF NumberOfKeys(t) = 0 THEN "task should not be an empty object"
    ELSE IF ~t.hasTrain THEN "task missing training data"
    ELSE IF ~isElementAnArray(t.train) THEN "task training data must be an array"
    ELSE IF Len(t.train.elems) = 0
         THEN "task training data must be an array of one or more objects"
    ELSE IF SomeTrain(t, NotAnObject)
         THEN "task training data array may only contain objects"
    ELSE IF SomeTrain(t, MissingInput)
         THEN "task training data objects missing at least one input"
    ELSE IF SomeTrain(t, InputNotArray) THEN "training inputs must be arrays"
    ELSE IF SomeTrain(t, MissingOutput)
         THEN "task training data objects missing at least one output"
    ELSE IF SomeTrain(t, OutputNotArray) THEN "training outputs must be arrays"
    ELSE IF SomeTrain(t, InputLengthThrows) THEN TypeError
    ELSE IF SomeTrain(t, InputEmpty)
         THEN "training input arrays must have one or more elements"
    ELSE IF SomeTrain(t, OutputLengthThrows) THEN TypeError
    ELSE IF SomeTrain(t, OutputEmpty)
         THEN "training output arrays must have one or more elements"
    ELSE IF SomeTrain(t, InputFilterThrows) THEN TypeError
    ELSE IF SomeTrain(t, InputRowsNotArrays)
         THEN "training input array elements must be arrays"
    ELSE IF SomeTrain(t, OutputFilterThrows) THEN TypeError
    ELSE IF SomeTrain(t, OutputRowsNotArrays)
         THEN "training output array elements must be arrays"
    ELSE "sane"

sanityCheck(t) ==
    IF t.kind = "Null" THEN "missing task"
    ELSE IF ~isElementAnObject(t) THEN "task should be an object"
    ELSE IF NumberOfKeys(t) = 0 THEN "task should not be an empty object"
    ELSE IF ~t.hasTrain THEN "task missing training data"
    ELSE IF ~isElementAnArray(t.train) THEN "task training data must be an array"
    ELSE IF Len(t.train.elems) = 0
         THEN "task training data must be an array of one or more objects"
    ELSE IF SomeTrain(t, NotAnObject)
         THEN "task training data array may only contain objects"
    ELSE IF SomeTrain(t, MissingInput)
         THEN "task training data objects missing at least one input"
    ELSE IF SomeTrain(t, MissingOutput)
         THEN "task training data objects missing at least one output"
    ELSE IF SomeTrain(t, InputNotArray) THEN "training inputs must be arrays"
    ELSE IF SomeTrain(t, OutputNotArray) THEN "training outputs must be arrays"
    ELSE IF SomeTrain(t, InputLengthThrows) THEN TypeError
    ELSE IF SomeTrain(t, InputEmpty)
         THEN "training input arrays must have one or more elements"
    ELSE IF SomeTrain(t, OutputLengthThrows) THEN TypeError
    ELSE IF SomeTrain(t, OutputEmpty)
         THEN "training output arrays must have one or more elements"
    ELSE IF SomeTrain(t, InputFilterThrows) THEN TypeError
    ELSE IF SomeTrain(t, InputRowsNotArrays)
         THEN "training input array elements must be arrays"
    ELSE IF SomeTrain(t, OutputFilterThrows) THEN TypeError
    ELSE IF SomeTrain(t, OutputRowsNotArrays)
         THEN "training output array elements must be arrays"
    ELSE "sane"

\* the grid an analyzer reads from a grid value all of whose rows are arrays
PlainGrid(g) == [i \in 1..Len(g.rows) |-> g.rows[i].cells]
PlainSample(t) == [input |-> PlainGrid(t.input), output |-> PlainGrid(t.output)]
\* the reads of solve_sample's first statements succeed on this value
Readable(t) ==
    /\ isElementAnObject(t) /\ t.hasInput /\ t.hasOutput
    /\ isElementAnArray(t.input) /\ isElementAnArray(t.output)
    /\ Len(t.input.rows) >= 1 /\ Len(t.output.rows) >= 1
    /\ isArrayOfArrays(t.input) /\ isArrayOfArrays(t.output)

----------------------------------------------------------------------------
(* The values the model draws its inputs from. *)

\* the palette samples are drawn from: the background and one colour
Colors == {0, 1}
RowsOfLength(w) == [1..w -> Colors]
\* the rectangular grids within the bounds; a grid may have rows of no cells
Grids ==
    UNION {[1..h -> RowsOfLength(w)] :
             <<h, w>> \in {d \in (1..MaxRows) \X (0..MaxCols) : d[1] * d[2] <= MaxCells}}
Samples == [input : Grids, output : Grids]

\* the palette and the grids the grid functions are applied to: the
\* background and two colours
MatrixColors == {0, 1, 2}
Matrices ==
    UNION {[1..h -> [1..w -> MatrixColors]] :
             <<h, w>> \in {d \in (1..MaxRows) \X (0..MaxCols) : d[1] * d[2] <= MaxCells}}

\* the grid values of a task: a number, [], [5], [[]] and [[1]]
TaskGridValues ==
    {NumberGrid, ArrayGrid(<<>>), ArrayGrid(<<NumberRow>>),
     ArrayGrid(<<ArrayRow(<<>>)>>), ArrayGrid(<<ArrayRow(<<1>>)>>)}
ReadableGridValues == {ArrayGrid(<<ArrayRow(<<>>)>>), ArrayGrid(<<ArrayRow(<<1>>)>>)}
TaskSampleValues ==
    {NumberSample}
    \cup {ObjectSample(FALSE, NumberGrid, FALSE, NumberGrid)}
    \cup {ObjectSample(TRUE, i, FALSE, NumberGrid) : i \in TaskGridValues}
    \cup {ObjectSample(FALSE, NumberGrid, TRUE, o) : o \in TaskGridValues}
    \cup {ObjectSample(TRUE, i, TRUE, o) : i \in TaskGridValues, o \in TaskGridValues}
TrainValues ==
    {ListValue("Object", <<>>), ListValue("Number", <<>>)}
    \cup {ListValue("Array", e) : e \in UNION {[1..n -> TaskSampleValues] : n \in 0..MaxTrain}}
TestValues ==
    {ListValue("Array", <<>>), ListValue("Array", <<NumberSample>>)}
    \cup {ListValue("Array", <<ObjectSample(TRUE, ArrayGrid(<<ArrayRow(<<1>>)>>), TRUE, o)>>) :
            o \in ReadableGridValues}
\* a task with both groups carries at most one train sample
Tasks ==
    {PlainTask(k) : k \in {"Null", "Undefined", "Array", "String", "Number", "Object"}}
    \cup {ObjectTask(TRUE, FALSE, NoList, FALSE, NoList)}
    \cup {ObjectTask(FALSE, FALSE, NoList, TRUE, t) : t \in TestValues}
    \cup {ObjectTask(FALSE, TRUE, tr, FALSE, NoList) : tr \in TrainValues}
    \cup {ObjectTask(FALSE, TRUE, tr, TRUE, t) :
            tr \in {v \in TrainValues : v.kind # "Array" \/ Len(v.elems) <= 1}, t \in TestValues}
\* a training index: 0 stands for the omitted (falsy) argument
TrainingIndexes == 0..(MaxTrain + 1)
Revisions == {"properties", "chain"}

----------------------------------------------------------------------------
(* Results.  kind is the class of the returned value ("String", "Array",   *)
(* "Object"), "Throw" for an exception that leaves solveTask, "none" while *)
(* nothing has been returned.  A string is kept as its pieces.             *)

NoResult == [kind |-> "none", text |-> <<>>, grid |-> <<>>, props |-> {}]
StringResult(pieces) == [NoResult EXCEPT !.kind = "String", !.text = pieces]
GridResult(g) == [NoResult EXCEPT !.kind = "Array", !.grid = g]
MapResult(keys) == [NoResult EXCEPT !.kind = "Object", !.props = keys]
Thrown == [NoResult EXCEPT !.kind = "Throw"]
NoSample == [input |-> <<>>, output |-> <<>>]
NoSelection == [group |-> "none", index |-> 0]
Selection(group, index) == [group |-> group, index |-> index]

\* no grid handed to a grid function, no aggregate, no frequency table
NoMatrix == <<>>
NoAggregate == <<>>
NoTable == [kind |-> "none", counts |-> <<>>]

When(cond, key) == IF cond THEN {key} ELSE {}

\* the property-map revision of solve_sample: the keys of patternsDetected
solve_sample(s) ==
    When(doInputAndOutputGridsHaveTheSameDimensions(s), "InputAndOutputGridsHaveTheSameDimensions")
    \cup When(areInputAndOutputGridsIdentical(s), "InputAndOutputGridsIdentical")
    \cup When(areInputAndOutputColumnsOfTheSameSize(s), "InputAndOutputColumnsOfTheSameSize")
    \cup When(doesTheOutputColumnMatchAnyColumnsOfTheInput(s), "OutputColumnMatchAnyColumnsOfTheInput")
    \cup When(areAllColumnsEqual(s.input), "AllInputColumnsEqual")
    \cup When(areInputAndOutputRowsOfTheSameSize(s), "InputAndOutputRowsOfTheSameSize")
    \cup When(doesTheOutputRowMatchAnyRowsOfTheInput(s), "OutputRowMatchAnyRowsOfTheInput")
    \cup When(areAllRowsEqual(s.input), "AllInputRowsEqual")
    \cup When(isTheOutputOneRowHigh(s), "OutputOneRowHigh")
    \cup When(areThereMoreInputColumnsThanOutputColumns(s), "MoreInputColumnsThanOutputColumn")
    \cup When(isTheOutputOneColumnWide(s), "OutputOneColumnWide")
    \cup When(areThereMoreInputRowsThanOutputRows(s), "MoreInputRowsThanOutputRows")
    \cup When(isInputGridScaledDownByIntegerFactor(s), "InputGridScaledDownByIntegerFactor")
    \cup When(isInputGridScaledUpByIntegerFactor(s), "InputGridScaledUpByIntegerFactor")
    \cup When(areInputAndOutputSquare(s), "InputAndOutputSquare")
    \cup When(isInputSquare(s), "InputSquare")
    \cup When(isOutputSquare(s), "OutputSquare")
    \cup When(areInputSquareAndOutputNotSquare(s), "InputSquareAndOutputNotSquare")
    \cup When(areInputNotSquareAndOutputSquare(s), "InputNotSquareAndOutputSquare")
    \cup When(areNeitherInputNorOutputSquare(s), "NeitherInputNorOutputSquare")
    \cup When(areAllInputCellsBlack(s), "AllInputCellsBlack")
    \cup When(areAllOutputCellsBlack(s), "AllOutputCellsBlack")
    \cup When(areAllInputCellsColored(s), "AllInputCellsColored")
    \cup When(areAllOutputCellsColored(s), "AllOutputCellsColored")
    \cup When(areAllInputCellsTheSameColor(s), "AllInputCellsTheSameColor")
    \cup When(areAllOutputCellsTheSameColor(s), "AllOutputCellsTheSameColor")
    \cup When(areAllInputCellsOneColorOrBlack(s), "AllInputCellsOneColorOrBlack")
    \cup When(areAllOutputCellsOneColorOrBlack(s), "AllOutputCellsOneColorOrBlack")
    \cup When(areAllInputAndOutputCellsOneColorOrBlack(s), "AllInputAndOutputCellsOneColorOrBlack")
    \cup When(areAllInputCellsTwoColorsOrBlack(s), "AllInputCellsTwoColorsOrBlack")
    \cup When(areAllOutputCellsTwoColorsOrBlack(s), "AllOutputCellsTwoColorsOrBlack")
    \cup When(areAllInputAndOutputCellsTwoColorsOrBlack(s), "AllInputAndOutputCellsTwoColorsOrBlack")

----------------------------------------------------------------------------
(* solveTask. *)

InitTask ==
    /\ rev = "none"
    /\ task \in Tasks
    /\ training_sample \in TrainingIndexes
    /\ pc = "start"
    /\ err = ""
    /\ selected = NoSelection
    /\ sample = NoSample
    /\ orig = NoSample
    /\ patternDetected = <<>>
    /\ step = 0
    /\ result = NoResult
    /\ grid = NoMatrix
    /\ aggregate = NoAggregate
    /\ propertyTable = NoTable
    /\ first = NoResult
    /\ task_files = <<>>
    /\ taskData = <<>>
    /\ visited = {}

\* variant: the validator's verdict is computed and not returned
SolveTaskCheckFallsThrough ==
    /\ pc = "start"
    /\ err' = sanityCheck(task)
    /\ pc' = "select"
    /\ UNCHANGED <<rev, task, training_sample, selected, sample, orig,
                   patternDetected, step, result, grid, aggregate, propertyTable,
                first, task_files, taskData, visited>>

\* let err = sanityCheck(task); if(err !== 'sane') return err
SolveTaskCheck ==
    /\ pc = "start"
    /\ err' = sanityCheck(task)
    /\ IF err' = TypeError
       THEN result' = Thrown /\ pc' = "done"
       ELSE IF err' # "sane"
            THEN result' = StringResult(<<err'>>) /\ pc' = "done"
            ELSE result' = result /\ pc' = "select"
    /\ UNCHANGED <<rev, task, training_sample, selected, sample, orig,
                   patternDetected, step, grid, aggregate, propertyTable,
                first, task_files, taskData, visited>>

\* the value handed to solve_sample: task.train[training_sample-1] or
\* task.test[0]; reading [0] of a missing test, and the first read of a
\* sample that is undefined or no object, throw a TypeError.  rev is the
\* revision of solve_sample the call resolves to.
Enter(group, index, list) ==
    /\ selected' = Selection(group, index)
    /\ IF list.kind = "Array" /\ index \in 1..Len(list.elems) /\ Readable(list.elems[index])
       THEN /\ sample' = PlainSample(list.elems[index])
            /\ orig' = sample'
            /\ rev' \in Revisions
            /\ pc' = "solve"
            /\ result' = result
       ELSE /\ result' = Thrown
            /\ pc' = "done"
            /\ UNCHANGED <<rev, sample, orig>>

SolveTaskSelect ==
    /\ pc = "select"
    /\ IF training_sample # 0
       THEN Enter("train", training_sample, task.train)
       ELSE Enter("test", 1, task.test)
    /\ UNCHANGED <<task, training_sample, err, patternDetected, step,
                   grid, aggregate, propertyTable,
                first, task_files, taskData, visited>>

----------------------------------------------------------------------------
(* solve_sample, the property-map revision: one pass, no early return. *)

SolveSample ==
    /\ pc = "solve" /\ rev = "properties"
    /\ result' = MapResult(solve_sample(sample))
    /\ pc' = "done"
    /\ UNCHANGED <<rev, task, training_sample, err, selected, sample, orig,
                   patternDetected, step, grid, aggregate, propertyTable,
                first, task_files, taskData, visited>>

----------------------------------------------------------------------------
(* solve_sample, the chain revision: one action per step of the chain. *)

\* return sample.output
ReturnOutput(s) == result' = GridResult(s.output) /\ pc' = "done"
Record(text) == patternDetected' = Append(patternDetected, text)
ChainFrame ==
    UNCHANGED <<rev, task, training_sample, err, selected, orig,
                grid, aggregate, propertyTable,
                first, task_files, taskData, visited>>

ChainSameDimensions ==
    /\ pc = "solve" /\ rev = "chain"
    /\ step' = 1
    /\ IF doInputAndOutputGridsHaveTheSameDimensions(sample)
       THEN IF areInputAndOutputGridsIdentical(sample)
            THEN ReturnOutput(sample) /\ UNCHANGED patternDetected
            ELSE Record("grids have same dimension |") /\ pc' = "step2"
                 /\ UNCHANGED result
       ELSE pc' = "step2" /\ UNCHANGED <<patternDetected, result>>
    /\ UNCHANGED sample
    /\ ChainFrame

ChainColumnsOfTheSameSize ==
    /\ pc = "step2"
    /\ step' = 2
    /\ IF areInputAndOutputColumnsOfTheSameSize(sample)
       THEN IF processInputAndOutputHavingColumnsOfTheSameSize(sample)
            THEN ReturnOutput(sample) /\ UNCHANGED patternDetected
            ELSE Record("input and output columns have same size |") /\ pc' = "step3"
                 /\ UNCHANGED result
       ELSE pc' = "step3" /\ UNCHANGED <<patternDetected, result>>
    /\ UNCHANGED sample
    /\ ChainFrame

\* variant: step 3 reduces the columns of the input before its test
ChainRowsOfTheSameSizeDeduping ==
    /\ pc = "step3"
    /\ step' = 3
    /\ sample' = [sample EXCEPT !.input = dedupColumns(sample.input)]
    /\ IF areInputAndOutputRowsOfTheSameSize(sample')
       THEN IF processInputAndOutputHavingRowsOfTheSameSize(sample')
            THEN ReturnOutput(sample') /\ UNCHANGED patternDetected
            ELSE Record("input and output rows have the same size |") /\ pc' = "step4"
                 /\ UNCHANGED result
       ELSE pc' = "step4" /\ UNCHANGED <<patternDetected, result>>
    /\ ChainFrame

ChainRowsOfTheSameSize ==
    /\ pc = "step3"
    /\ step' = 3
    /\ IF areInputAndOutputRowsOfTheSameSize(sample)
       THEN IF processInputAndOutputHavingRowsOfTheSameSize(sample)
            THEN ReturnOutput(sample) /\ UNCHANGED patternDetected
            ELSE Record("input and output rows have the same size |") /\ pc' = "step4"
                 /\ UNCHANGED result
       ELSE pc' = "step4" /\ UNCHANGED <<patternDetected, result>>
    /\ UNCHANGED sample
    /\ ChainFrame

\* variant: step 4 leaves the reduced grid in the sample with the cells of
\* each row in reverse order
ChainOutputOneRowHighReversing ==
    /\ pc = "step4"
    /\ step' = 4
    /\ IF isTheOutputOneRowHigh(sample)
       THEN IF areThereMoreInputColumnsThanOutputColumns(sample)
            THEN LET reduced == [sample EXCEPT !.input = dedupColumns(sample.input)] IN
                 /\ sample' = [sample EXCEPT !.input =
                        [i \in 1..Len(reduced.input) |->
                           [j \in 1..Len(reduced.input[i]) |->
                              reduced.input[i][Len(reduced.input[i]) + 1 - j]]]]
                 /\ IF processInputAndOutputHavingRowsOfTheSameSize(reduced)
                    THEN ReturnOutput(reduced) /\ UNCHANGED patternDetected
                    ELSE Record("output is one row high |") /\ pc' = "step5"
                         /\ UNCHANGED result
            ELSE Record("output is one row high |") /\ pc' = "step5"
                 /\ UNCHANGED <<sample, result>>
       ELSE pc' = "step5" /\ UNCHANGED <<sample, patternDetected, result>>
    /\ ChainFrame

ChainOutputOneRowHigh ==
    /\ pc = "step4"
    /\ step' = 4
    /\ IF isTheOutputOneRowHigh(sample)
       THEN IF areThereMoreInputColumnsThanOutputColumns(sample)
            THEN /\ sample' = [sample EXCEPT !.input = dedupColumns(sample.input)]
                 /\ IF processInputAndOutputHavingRowsOfTheSameSize(sample')
                    THEN ReturnOutput(sample') /\ UNCHANGED patternDetected
                    ELSE Record("output is one row high |") /\ pc' = "step5"
                         /\ UNCHANGED result
            ELSE Record("output is one row high |") /\ pc' = "step5"
                 /\ UNCHANGED <<sample, result>>
       ELSE pc' = "step5" /\ UNCHANGED <<sample, patternDetected, result>>
    /\ ChainFrame

ChainOutputOneColumnWide ==
    /\ pc = "step5"
    /\ step' = 5
    /\ IF isTheOutputOneColumnWide(sample)
       THEN IF areThereMoreInputRowsThanOutputRows(sample)
            THEN /\ sample' = [sample EXCEPT !.input = dedupRows(sample.input)]
                 /\ IF processInputAndOutputHavingColumnsOfTheSameSize(sample')
                    THEN ReturnOutput(sample') /\ UNCHANGED patternDetected
                    ELSE Record("output is one column wide |") /\ pc' = "step6"
                         /\ UNCHANGED result
            ELSE Record("output is one column wide |") /\ pc' = "step6"
                 /\ UNCHANGED <<sample, result>>
       ELSE pc' = "step6" /\ UNCHANGED <<sample, patternDetected, result>>
    /\ ChainFrame

ScalesDown(s) ==
    /\ EqualsItsFloor(getInputOutputRowScalingFactor(s))
    /\ LessThanOne(getInputOutputRowScalingFactor(s))
    /\ SameNumber(getInputOutputRowScalingFactor(s), getInputOutputColumnScalingFactor(s))
ScalesUp(s) ==
    /\ EqualsItsFloor(getOutputInputRowScalingFactor(s))
    /\ GreaterThanOne(getOutputInputRowScalingFactor(s))
    /\ SameNumber(getOutputInputRowScalingFactor(s), getOutputInputColumnScalingFactor(s))

ChainScaling ==
    /\ pc = "step6"
    /\ step' = 6
    /\ patternDetected' =
          patternDetected
          \o (IF ScalesDown(sample)
              THEN <<"scales down an integer multiple in rows and columns |">> ELSE <<>>)
          \o (IF ScalesUp(sample)
              THEN <<"scales up an integer multiple in rows and columns |">> ELSE <<>>)
    /\ result' = StringResult(<<"no solution:   ">> \o patternDetected')
    /\ pc' = "done"
    /\ UNCHANGED sample
    /\ ChainFrame

Chain ==
    \/ ChainSameDimensions
    \/ ChainColumnsOfTheSameSize
    \/ ChainRowsOfTheSameSize
    \/ ChainOutputOneRowHigh
    \/ ChainOutputOneColumnWide
    \/ ChainScaling

----------------------------------------------------------------------------
(* The specifications: solveTask on a task, and solve_sample on a sample.  *)

Next == SolveTaskCheck \/ SolveTaskSelect \/ SolveSample \/ Chain

Spec == InitTask /\ [][Next]_vars

InitSample ==
    /\ rev \in Revisions
    /\ task = PlainTask("Undefined")
    /\ training_sample = 0
    /\ pc = "solve"
    /\ err = "sane"
    /\ selected = NoSelection
    /\ sample \in Samples
    /\ orig = sample
    /\ patternDetected = <<>>
    /\ step = 0
    /\ result = NoResult
    /\ grid = NoMatrix
    /\ aggregate = NoAggregate
    /\ propertyTable = NoTable
    /\ first = NoResult
    /\ task_files = <<>>
    /\ taskData = <<>>
    /\ visited = {}

NextSample == SolveSample \/ Chain

SpecSample == InitSample /\ [][NextSample]_vars

\* a second call of the chain solve_sample on the sample object of a call
\* that returned a grid: the call starts over on the sample as the first
\* call left it; first keeps what the first call returned
SolveAgain ==
    /\ pc = "done" /\ rev = "chain"
    /\ result.kind = "Array" /\ first = NoResult
    /\ first' = result
    /\ patternDetected' = <<>>
    /\ step' = 0
    /\ result' = NoResult
    /\ pc' = "solve"
    /\ UNCHANGED <<rev, task, training_sample, err, selected, sample, orig,
                   grid, aggregate, propertyTable, task_files, taskData, visited>>

NextAgain == NextSample \/ SolveAgain

SpecAgain == InitSample /\ [][NextAgain]_vars

----------------------------------------------------------------------------
(* The grid functions, each applied to a grid on its own.                  *)

InitMatrix ==
    /\ rev = "none"
    /\ task = PlainTask("Undefined")
    /\ training_sample = 0
    /\ pc = "matrix"
    /\ err = ""
    /\ selected = NoSelection
    /\ sample = NoSample
    /\ orig = NoSample
    /\ patternDetected = <<>>
    /\ step = 0
    /\ result = NoResult
    /\ grid \in Matrices
    /\ aggregate = NoAggregate
    /\ propertyTable = NoTable
    /\ first = NoResult
    /\ task_files = <<>>
    /\ taskData = <<>>
    /\ visited = {}

MatrixFrame ==
    UNCHANGED <<rev, task, training_sample, err, selected, sample, orig,
                patternDetected, step, grid, aggregate, propertyTable,
                first, task_files, taskData, visited>>

\* grids.transpose(matrix)
Transpose ==
    /\ pc = "matrix"
    /\ result' = GridResult(transpose(grid))
    /\ pc' = "transposed"
    /\ MatrixFrame

\* grids.transpose applied to the grid it returned
TransposeAgain ==
    /\ pc = "transposed"
    /\ result' = GridResult(transpose(result.grid))
    /\ pc' = "transposed twice"
    /\ MatrixFrame

\* grids.dedupRows(matrix)
DedupRows ==
    /\ pc = "matrix"
    /\ result' = GridResult(dedupRows(grid))
    /\ pc' = "rows deduped"
    /\ MatrixFrame

\* grids.dedupColumns(matrix)
DedupColumns ==
    /\ pc = "matrix"
    /\ result' = GridResult(dedupColumns(grid))
    /\ pc' = "columns deduped"
    /\ MatrixFrame

\* a verdict of one of the colour-cardinality detectors
Verdict(detector, n) == [detector |-> detector, n |-> n]
\* grids.areAllCellsOneColorOrBlack(matrix) and
\* grids.areAllCellsNColorsOrBlack(matrix, n) for every n a grid of the
\* palette can reach and one more: the verdicts that are true
ColorCardinality ==
    /\ pc = "matrix"
    /\ result' = MapResult(
          (IF areAllCellsOneColorOrBlack(grid)
           THEN {Verdict("areAllCellsOneColorOrBlack", 1)} ELSE {})
          \cup {Verdict("areAllCellsNColorsOrBlack", n) :
                   n \in {m \in 0..Cardinality(MatrixColors) : areAllCellsNColorsOrBlack(grid, m)}})
    /\ pc' = "colors counted"
    /\ MatrixFrame

\* the column reduction done the other way round:
\* grids.transpose(grids.dedupRows(grids.transpose(matrix)))
DedupRowsOfTranspose ==
    /\ pc = "matrix"
    /\ result' = GridResult(transpose(dedupRows(transpose(grid))))
    /\ pc' = "rows of the transpose deduped"
    /\ MatrixFrame

\* the output grids the matrix is paired with: one row of one or two cells
PairedOutputs == {m \in Matrices : Len(m) = 1 /\ Len(m[1]) \in 1..2}
\* grids.areAllInputAndOutputCellsOneColorOrBlack(sample) and
\* grids.areAllInputAndOutputCellsTwoColorsOrBlack(sample) on the sample
\* made of the matrix and an output grid, recorded under the keys of
\* solve_sample
CombinedColorCardinality ==
    /\ pc = "matrix"
    /\ \E output \in PairedOutputs :
          LET s == [input |-> grid, output |-> output] IN
          /\ sample' = s
          /\ result' = MapResult(
                When(areAllInputAndOutputCellsOneColorOrBlack(s),
                     "AllInputAndOutputCellsOneColorOrBlack")
                \cup When(areAllInputAndOutputCellsTwoColorsOrBlack(s),
                          "AllInputAndOutputCellsTwoColorsOrBlack"))
    /\ pc' = "colors compared"
    /\ UNCHANGED <<rev, task, training_sample, err, selected, orig,
                   patternDetected, step, grid, aggregate, propertyTable,
                first, task_files, taskData, visited>>

NextMatrix ==
    \/ Transpose \/ TransposeAgain \/ DedupRows \/ DedupColumns \/ ColorCardinality
    \/ DedupRowsOfTranspose \/ CombinedColorCardinality

SpecMatrix == InitMatrix /\ [][NextMatrix]_vars

----------------------------------------------------------------------------
(* The aggregator: the corpus run that stores what solveTask returns for   *)
(* every sample of every task, and the frequency table computed at its     *)
(* end.  task_files holds, for each task id, what solveTask returns for    *)
(* each sample key of its file; taskData is the taskData object of each    *)
(* describe block, a map from sample key to stored value; aggregate maps a *)
(* task id to its taskData; visited is the set of tests that have run.     *)
(* The tests are taken in any order.                                       *)

use_tasks == <<"00000000", "007bbfb7">>
propertyList ==
    <<"InputAndOutputGridsHaveTheSameDimensions", "InputAndOutputGridsIdentical",
      "InputAndOutputColumnsOfTheSameSize", "OutputColumnMatchAnyColumnsOfTheInput",
      "AllInputColumnsEqual", "InputAndOutputRowsOfTheSameSize",
      "OutputRowMatchAnyRowsOfTheInput", "AllInputRowsEqual", "OutputOneRowHigh",
      "MoreInputColumnsThanOutputColumn", "OutputOneColumnWide",
      "MoreInputRowsThanOutputRows", "InputGridScaledDownByIntegerFactor",
      "InputGridScaledUpByIntegerFactor", "InputAndOutputSquare", "InputSquare",
      "OutputSquare", "InputSquareAndOutputNotSquare", "InputNotSquareAndOutputSquare",
      "AllInputCellsBlack", "AllOutputCellsBlack", "AllInputCellsColored",
      "AllOutputCellsColored", "AllInputCellsTheSameColor", "AllOutputCellsTheSameColor",
      "NeitherInputNorOutputSquare", "AllInputCellsOneColorOrBlack",
      "AllOutputCellsOneColorOrBlack", "AllInputAndOutputCellsOneColorOrBlack",
      "AllInputCellsTwoColorsOrBlack", "AllOutputCellsTwoColorsOrBlack",
      "AllInputAndOutputCellsTwoColorsOrBlack", "NoPatternsDetected">>

\* the sample keys: n stands for "sample_n", TestKey for "test"
TestKey == 0
\* what a call of solveTask leaves the run with: a property map, the
\* string of a run without a solution, or nothing when the call throws
Outcomes ==
    {MapResult({"InputSquare", "OutputSquare"}), MapResult({"InputSquare"}),
     StringResult(<<"no solution:   ">>), Thrown}

\* _.has(value, property)
hasProperty(value, property) == value.kind = "Object" /\ property \in value.props

\* variant: some stored sample has the property
someSampleHasProperty(task_id, property) ==
    LET sample_keys == DOMAIN aggregate[task_id]
    IN  \E key \in sample_keys : hasProperty(aggregate[task_id][key], property)
everySampleHasProperty(task_id, property) ==
    LET sample_keys == DOMAIN aggregate[task_id]
    IN  \A key \in sample_keys : hasProperty(aggregate[task_id][key], property)

\* the propertyTable generatePropertyTable builds, entry by entry
generatePropertyTable(tasks) ==
    [kind |-> "Object",
     counts |-> [property \in {propertyList[i] : i \in 1..Len(propertyList)} |->
        Cardinality({i \in 1..Len(tasks) : everySampleHasProperty(tasks[i], property)})]]

\* what solveTask returns for each sample key of a task file: the call for
\* a train sample is made with an index of the train list and returns, a
\* property map or the string of a run without a solution; the call for
\* the test may throw
TaskFiles ==
    UNION {{f \in [{TestKey} \cup (1..n) -> Outcomes] :
              \A key \in 1..n :
                 f[key] \in {MapResult({"InputSquare"}), StringResult(<<"no solution:   ">>)}} :
             n \in 0..MaxTrain}

InitAggregate ==
    /\ rev = "none"
    /\ task = PlainTask("Undefined")
    /\ training_sample = 0
    /\ pc = "aggregate"
    /\ err = ""
    /\ selected = NoSelection
    /\ sample = NoSample
    /\ orig = NoSample
    /\ patternDetected = <<>>
    /\ step = 0
    /\ result = NoResult
    /\ grid = NoMatrix
    /\ aggregate = NoAggregate
    /\ propertyTable = NoTable
    /\ first = NoResult
    /\ task_files \in [{use_tasks[i] : i \in 1..Len(use_tasks)} -> TaskFiles]
    /\ taskData = [task_id \in DOMAIN task_files |-> <<>>]
    /\ visited = {}

AggregateFrame ==
    UNCHANGED <<rev, task, training_sample, err, selected, sample, orig,
                patternDetected, step, result, grid, first, task_files>>

\* taskData[key] = value
Stored(data, key, value) ==
    [k \in DOMAIN data \cup {key} |-> IF k = key THEN value ELSE data[k]]

\* variant: the aggregate holds a copy of the taskData, made by the test
StoreTrainSampleInACopy ==
    /\ pc = "aggregate"
    /\ \E task_id \in DOMAIN task_files : \E index \in DOMAIN task_files[task_id] \ {TestKey} :
          /\ <<task_id, index>> \notin visited
          /\ visited' = visited \cup {<<task_id, index>>}
          /\ taskData' = [taskData EXCEPT
                ![task_id] = Stored(@, index, task_files[task_id][index])]
          /\ UNCHANGED aggregate
    /\ UNCHANGED <<pc, propertyTable>>
    /\ AggregateFrame

\* the test of one train sample: the value solveTask returns is stored in
\* the taskData of the block under sample_<index + 1>; the aggregate entry
\* of the task, once set, is that same taskData object
StoreTrainSample ==
    /\ pc = "aggregate"
    /\ \E task_id \in DOMAIN task_files : \E index \in DOMAIN task_files[task_id] \ {TestKey} :
          /\ <<task_id, index>> \notin visited
          /\ visited' = visited \cup {<<task_id, index>>}
          /\ taskData' = [taskData EXCEPT
                ![task_id] = Stored(@, index, task_files[task_id][index])]
          /\ aggregate' =
                IF task_id \in DOMAIN aggregate
                THEN [aggregate EXCEPT ![task_id] = taskData'[task_id]]
                ELSE aggregate
    /\ UNCHANGED <<pc, propertyTable>>
    /\ AggregateFrame

\* the test of the test sample: the value solveTask returns is stored under
\* "test" and the taskData becomes the aggregate entry of the task; a call
\* that throws stores nothing
StoreTest ==
    /\ pc = "aggregate"
    /\ \E task_id \in DOMAIN task_files :
          /\ <<task_id, TestKey>> \notin visited
          /\ visited' = visited \cup {<<task_id, TestKey>>}
          /\ IF task_files[task_id][TestKey] = Thrown
             THEN UNCHANGED <<taskData, aggregate>>
             ELSE /\ taskData' = [taskData EXCEPT
                        ![task_id] = Stored(@, TestKey, task_files[task_id][TestKey])]
                  /\ aggregate' = Stored(aggregate, task_id, taskData'[task_id])
    /\ UNCHANGED <<pc, propertyTable>>
    /\ AggregateFrame

\* afterAll, once every test has run: processAggregate calls
\* generatePropertyTable(use_tasks), which reads Object.keys of undefined
\* for a task the aggregate does not hold
ProcessAggregate ==
    /\ pc = "aggregate"
    /\ visited = {<<task_id, key>> \in (DOMAIN task_files) \X (0..MaxTrain) :
                     key \in DOMAIN task_files[task_id]}
    /\ propertyTable' =
          IF \A i \in 1..Len(use_tasks) : use_tasks[i] \in DOMAIN aggregate
          THEN generatePropertyTable(use_tasks) ELSE [NoTable EXCEPT !.kind = "Throw"]
    /\ pc' = "tabulated"
    /\ UNCHANGED <<aggregate, taskData, visited>>
    /\ AggregateFrame

NextAggregate == StoreTrainSample \/ StoreTest \/ ProcessAggregate

SpecAggregate == InitAggregate /\ [][NextAggregate]_vars

----------------------------------------------------------------------------
(* The structural rules of the validator, stated on the task value.        *)

TrainElements(t) ==
    IF t.kind = "Object" /\ t.hasTrain /\ t.train.kind = "Array"
    THEN {t.train.elems[i] : i \in 1..Len(t.train.elems)}
    ELSE {}
ObjectElements(t) == {e \in TrainElements(t) : e.kind = "Object"}
HasArray(has, g) == has /\ g.kind = "Array"

\* rule n of the fixed order is violated by the task or by some train element
Violates(t, n) ==
    CASE n = 1 -> t.kind = "Null"
      [] n = 2 -> t.kind # "Object"
      [] n = 3 -> t.kind = "Object" /\ ~t.hasOther /\ ~t.hasTrain /\ ~t.hasTest
      [] n = 4 -> t.kind = "Object" /\ (~t.hasTrain \/ t.train.kind # "Array")
      [] n = 5 -> t.kind = "Object" /\ t.hasTrain /\ t.train.kind = "Array"
                  /\ Len(t.train.elems) = 0
      [] n = 6 -> \E e \in TrainElements(t) : e.kind # "Object"
      [] n = 7 -> \E e \in ObjectElements(t) : ~e.hasInput \/ ~e.hasOutput
      [] n = 8 -> \E e \in ObjectElements(t) :
                     \/ (e.hasInput /\ e.input.kind # "Array")
                     \/ (e.hasOutput /\ e.output.kind # "Array")
      [] n = 9 -> \E e \in ObjectElements(t) :
                     \/ (HasArray(e.hasInput, e.input) /\ Len(e.input.rows) = 0)
                     \/ (HasArray(e.hasOutput, e.output) /\ Len(e.output.rows) = 0)
      [] n = 10 -> \E e \in ObjectElements(t) :
                     \/ (HasArray(e.hasInput, e.input)
                         /\ \E i \in 1..Len(e.input.rows) : e.input.rows[i].kind # "Array")
                     \/ (HasArray(e.hasOutput, e.output)
                         /\ \E i \in 1..Len(e.output.rows) : e.output.rows[i].kind # "Array")

RuleNumbers == 1..10
MessagesOf(n) ==
    CASE n = 1 -> {"missing task"}
      [] n = 2 -> {"task should be an object"}
      [] n = 3 -> {"task should not be an empty object"}
      [] n = 4 -> {"task missing training data", "task training data must be an array"}
      [] n = 5 -> {"task training data must be an array of one or more objects"}
      [] n = 6 -> {"task training data array may only contain objects"}
      [] n = 7 -> {"task training data objects missing at least one input",
                   "task training data objects missing at least one output"}
      [] n = 8 -> {"training inputs must be arrays", "training outputs must be arrays"}
      [] n = 9 -> {"training input arrays must have one or more elements",
                   "training output arrays must have one or more elements"}
      [] n = 10 -> {"training input array elements must be arrays",
                    "training output array elements must be arrays"}
ViolatedRules(t) == {n \in RuleNumbers : Violates(t, n)}
EarliestViolated(t) == CHOOSE n \in ViolatedRules(t) : \A m \in ViolatedRules(t) : n <= m

\* the Grid invariant: at least one row, every row with at least one cell
GridInvariant(g) == Len(g) >= 1 /\ \A i \in 1..Len(g) : Len(g[i]) >= 1

\* the result carries a solution: the chain's returned grid, or a solution
\* key of a property map
HasSolution(r) == r.kind = "Array" \/ (r.kind = "Object" /\ "solution" \in r.props)

----------------------------------------------------------------------------
(* The claims. *)

\* C1: on a task the validator rejects, solveTask returns exactly the
\* validator's string, with or without a training index, and nothing of the
\* solver runs: no sample is selected, read, solved or rewritten.
C1_RejectedTaskReturnsVerdictOnly ==
    sanityCheck(task) # "sane" =>
        /\ selected = NoSelection /\ sample = NoSample /\ orig = NoSample
        /\ rev = "none" /\ step = 0 /\ patternDetected = <<>>
        /\ pc \in {"start", "done"}
        /\ (pc = "done" => result = StringResult(<<sanityCheck(task)>>))
C1_Witness ==
    /\ pc = "done" /\ training_sample = 1
    /\ task = PlainTask("Object")
    /\ result = StringResult(<<"task should not be an empty object">>)

\* C2 (as claimed): solveTask always ends by returning a value, never by
\* throwing: the validator's failure string, or the solver's result for
\* train[i-1] when an index i is given and for test[0] when it is omitted.
C2_SolveTaskAlwaysReturns ==
    pc = "done" =>
        /\ result.kind \in {"String", "Array", "Object"}
        /\ (err # "sane" => result = StringResult(<<err>>))
        /\ (err = "sane" =>
              selected = IF training_sample # 0
                         THEN Selection("train", training_sample)
                         ELSE Selection("test", 1))

\* C3: sanityCheck returns a string and never throws; it is 'sane' exactly
\* when no rule is violated by the task or by any train element, and
\* otherwise a message of the earliest violated rule of the fixed order,
\* whichever element violates it.
C3_EarliestViolatedRuleWins ==
    pc # "start" =>
        /\ err # TypeError
        /\ (err = "sane" <=> ViolatedRules(task) = {})
        /\ (ViolatedRules(task) # {} => err \in MessagesOf(EarliestViolated(task)))
\* the first element breaks a later rule (an empty input), the second an
\* earlier one (it is no object)
C3_Witness ==
    /\ pc = "done"
    /\ task.kind = "Object" /\ task.hasTrain /\ task.train.kind = "Array"
    /\ Len(task.train.elems) = 2
    /\ task.train.elems[1].kind = "Object"
    /\ HasArray(task.train.elems[1].hasInput, task.train.elems[1].input)
    /\ Len(task.train.elems[1].input.rows) = 0
    /\ task.train.elems[2].kind = "Number"
    /\ err = "task training data array may only contain objects"

\* C4 (as claimed): the sample solveTask selects from an accepted task has
\* two grids that satisfy the Grid invariant, so no scaling factor has a
\* zero divisor.
C4_SelectedGridsSatisfyGridInvariant ==
    (pc = "solve" /\ selected # NoSelection) =>
        /\ GridInvariant(sample.input) /\ GridInvariant(sample.output)
        /\ getInputOutputRowScalingFactor(sample).den # 0
        /\ getOutputInputRowScalingFactor(sample).den # 0
        /\ getInputOutputColumnScalingFactor(sample).den # 0
        /\ getOutputInputColumnScalingFactor(sample).den # 0

\* C5 (as claimed): when no heuristic matches the selected sample of a valid
\* task, solveTask returns a property map without a solution key, never a
\* value of the kind of a validator failure (a string).
C5_NoPatternIsAPropertyMap ==
    (pc = "done" /\ err = "sane" /\ result.kind \notin {"Throw", "Array"}) =>
        (result.kind = "Object" /\ "solution" \notin result.props)

\* C6 (as claimed): on a sample whose output equals its input cell for cell
\* the solver ends at step 1 with a result that carries solution = input
\* together with the same-dimensions and identical properties, the input
\* not rewritten.
C6_IdenticalCarriesSolutionAndProperties ==
    (pc = "done" /\ orig.input = orig.output) =>
        /\ HasSolution(result) /\ result.grid = orig.input
        /\ {"InputAndOutputGridsHaveTheSameDimensions",
            "InputAndOutputGridsIdentical"} \subseteq result.props
        /\ sample.input = orig.input

\* the premises of C7, on grids that satisfy the Grid invariant
OutputIsTheRowOfEveryInputRow(s) ==
    /\ Len(s.output) = 1
    /\ \A i \in 1..Len(s.input) : s.input[i] = s.output[1]
OutputIsTheColumnOfEveryInputColumn(s) ==
    /\ Len(s.output) = Len(s.input)
    /\ \A i \in 1..Len(s.output) : Len(s.output[i]) = 1
    /\ \A j \in 1..Len(s.input[1]) :
          [i \in 1..Len(s.input) |-> s.input[i][j]] = [i \in 1..Len(s.output) |-> s.output[i][1]]

\* C7: when the output is a single row as long as the input's rows and every
\* input row equals it, the chain solver returns the output at step 3 (at
\* step 1 when the input is that one row alone); when the output is a single
\* column as high as the input's columns and every input column equals it,
\* the chain solver returns the output at step 2 (at step 1 when the input
\* is that one column alone).
C7_UniformRowsOrColumnsSolved ==
    (pc = "done" /\ rev = "chain" /\ GridInvariant(orig.input) /\ GridInvariant(orig.output)) =>
        /\ (OutputIsTheRowOfEveryInputRow(orig) =>
              /\ result = GridResult(orig.output)
              /\ step = IF orig.input = orig.output THEN 1 ELSE 3)
        /\ (OutputIsTheColumnOfEveryInputColumn(orig) =>
              /\ result = GridResult(orig.output)
              /\ step = IF orig.input = orig.output THEN 1 ELSE 2)
C7_Witness ==
    /\ pc = "done" /\ rev = "chain" /\ step = 3
    /\ orig.input = <<<<1, 0, 1>>, <<1, 0, 1>>>>
    /\ orig.output = <<<<1, 0, 1>>>>
    /\ result = GridResult(orig.output)

\* the premises of the closing sentences of C8 and C9
InputRowsAllEqual(s) == \A i \in 1..Len(s.input) : s.input[i] = s.input[1]
InputColumnsAllEqual(s) ==
    \A i \in 1..Len(s.input) : \A j \in 1..Len(s.input[i]) : s.input[i][j] = s.input[i][1]

\* C8 (as claimed): past steps 1-3, when the output is one row high and the
\* input rows have more cells than the output row, the working input becomes
\* dedupColumns(input) and a solution is returned exactly when every row of
\* the reduced input equals the output row; so when all input rows equal a
\* row r and the output is the single row of r's distinct colours in
\* first-seen order, a solution is returned, whatever the number of rows.
C8_WiderInputIsDedupedAndSolved ==
    (pc = "done" /\ rev = "chain" /\ GridInvariant(orig.input) /\ GridInvariant(orig.output)) =>
        /\ (step >= 4 /\ Len(orig.output) = 1 /\ Len(orig.input[1]) > Len(orig.output[1])) =>
              LET reduced == dedupColumns(orig.input)
              IN  /\ (step = 4 => sample.input = reduced)
                  /\ ((step = 4 /\ HasSolution(result))
                      <=> \A i \in 1..Len(reduced) : reduced[i] = orig.output[1])
        /\ (InputRowsAllEqual(orig) /\ orig.output = <<SetSpread(<<>>, orig.input[1])>>) =>
              result = GridResult(orig.output)

\* C9 (as claimed): past steps 1-4, when the output is one column wide and
\* the input has more rows than the output, the working input becomes
\* dedupRows(input) and a solution is returned exactly when every column of
\* the reduced input equals the output column; so when all input columns
\* equal a column c and the output is the single column of c's distinct
\* colours in first-seen order, a solution is returned, whatever the number
\* of columns.
C9_TallerInputIsDedupedAndSolved ==
    (pc = "done" /\ rev = "chain" /\ GridInvariant(orig.input) /\ GridInvariant(orig.output)) =>
        /\ (step >= 5 /\ (\A i \in 1..Len(orig.output) : Len(orig.output[i]) = 1)
            /\ Len(orig.input) > Len(orig.output)) =>
              LET reduced == dedupRows(orig.input)
              IN  /\ (step = 5 => sample.input = reduced)
                  /\ ((step = 5 /\ HasSolution(result))
                      <=> /\ Len(reduced) = Len(orig.output)
                          /\ \A i \in 1..Len(reduced) : \A j \in 1..Len(reduced[i]) :
                                reduced[i][j] = orig.output[i][1])
        /\ (InputColumnsAllEqual(orig)
            /\ orig.output = [i \in 1..Len(SetSpread(<<>>, [k \in 1..Len(orig.input) |-> orig.input[k][1]]))
                                |-> <<SetSpread(<<>>, [k \in 1..Len(orig.input) |-> orig.input[k][1]])[i]>>]) =>
              result = GridResult(orig.output)

\* C10: identical grids have the same dimensions: every property map that
\* holds InputAndOutputGridsIdentical holds
\* InputAndOutputGridsHaveTheSameDimensions too, and the detector of the
\* first implies the detector of the second on every sample.
C10_IdenticalImpliesSameDimensions ==
    /\ (areInputAndOutputGridsIdentical(orig) => doInputAndOutputGridsHaveTheSameDimensions(orig))
    /\ ("InputAndOutputGridsIdentical" \in result.props
          => "InputAndOutputGridsHaveTheSameDimensions" \in result.props)
C10_Witness ==
    /\ pc = "done" /\ rev = "properties"
    /\ orig.input = <<<<0, 1, 1>>, <<1, 0, 0>>>>
    /\ {"InputAndOutputGridsIdentical", "InputAndOutputGridsHaveTheSameDimensions"}
          \subseteq result.props
\* the converse of C10 fails: this state is reachable
C10_SameDimensionsNotIdentical ==
    /\ pc = "done" /\ rev = "properties"
    /\ "InputAndOutputGridsHaveTheSameDimensions" \in result.props
    /\ "InputAndOutputGridsIdentical" \notin result.props

\* C11: the scaled-up and the scaled-down detector are never both true of
\* a sample, and both are false when input and output have as many rows
\* and as many columns as each other; the property map never holds both
\* keys, and neither on a sample of equal dimensions.
C11_ScaledUpAndDownExclude ==
    LET up == isInputGridScaledUpByIntegerFactor(orig)
        down == isInputGridScaledDownByIntegerFactor(orig)
        equalDimensions ==
            /\ Len(orig.input) = Len(orig.output)
            /\ Len(orig.input[1]) = Len(orig.output[1])
        keys == {"InputGridScaledUpByIntegerFactor", "InputGridScaledDownByIntegerFactor"}
    IN  /\ ~(up /\ down)
        /\ (equalDimensions => ~up /\ ~down)
        /\ (pc = "done" /\ rev = "properties" =>
              /\ ~(keys \subseteq result.props)
              /\ (equalDimensions => keys \cap result.props = {}))
\* a 1 x 1 input and a 2 x 2 output: scaled up by 2, not scaled down
C11_Witness ==
    /\ pc = "done" /\ rev = "properties"
    /\ orig.input = <<<<1>>>>
    /\ orig.output = <<<<1, 1>>, <<1, 1>>>>
    /\ "InputGridScaledUpByIntegerFactor" \in result.props
    /\ "InputGridScaledDownByIntegerFactor" \notin result.props

\* C12: on a grid that satisfies the Grid invariant, square or not,
\* transpose returns the grid that holds at (j,i) the cell the argument
\* holds at (i,j), and transposing that grid again gives the argument back.
C12_TransposeSwapsAndReturns ==
    GridInvariant(grid) =>
        /\ (pc = "transposed" =>
              /\ Len(result.grid) = Len(grid[1])
              /\ \A j \in 1..Len(grid[1]) :
                    /\ Len(result.grid[j]) = Len(grid)
                    /\ \A i \in 1..Len(grid) : result.grid[j][i] = grid[i][j])
        /\ (pc = "transposed twice" => result.grid = grid)
C12_Witness ==
    /\ pc = "transposed twice"
    /\ grid = <<<<1, 2, 0>>, <<0, 1, 2>>>>
    /\ result.grid = grid

\* the rows, the columns of a rectangular grid are all equal
RowsAllEqual(g) == \A i \in 1..Len(g) : g[i] = g[1]
ColumnsAllEqual(g) == \A i \in 1..Len(g) : \A j \in 1..Len(g[i]) : g[i][j] = g[i][1]

\* C13 (as claimed): on a grid whose rows are all equal dedupRows returns
\* exactly one row, equal to row 0 of the argument.
C13_EqualRowsReduceToRowZero ==
    (pc = "rows deduped" /\ RowsAllEqual(grid)) => result.grid = <<grid[1]>>

\* C13 (amended): on a grid whose rows are all equal dedupRows returns
\* exactly one row, equal to row 0 of the argument, when the columns are
\* all equal too (every cell is the same), and returns the grid unchanged
\* when they are not.
C13_EqualRowsReduceWhenColumnsEqual ==
    (pc = "rows deduped" /\ RowsAllEqual(grid)) =>
        result.grid = IF ColumnsAllEqual(grid) THEN <<grid[1]>> ELSE grid
C13_Witness ==
    /\ pc = "rows deduped"
    /\ grid = <<<<2, 2>>, <<2, 2>>, <<2, 2>>>>
    /\ result.grid = <<<<2, 2>>>>

\* C14: dedupRows returns a grid whose columns are not all equal unchanged,
\* duplicate rows or not, and dedupColumns returns a grid whose rows are
\* not all equal unchanged.
C14_DedupLeavesOtherGridsUnchanged ==
    /\ (pc = "rows deduped" /\ ~ColumnsAllEqual(grid)) => result.grid = grid
    /\ (pc = "columns deduped" /\ ~RowsAllEqual(grid)) => result.grid = grid
\* rows 0 and 2 are duplicates and the columns differ
C14_Witness ==
    /\ pc = "rows deduped"
    /\ grid = <<<<0, 1>>, <<2, 1>>, <<0, 1>>>>
    /\ result.grid = grid

\* the colours of a grid besides the background
ColorsOf(g) == {g[i][j] : <<i, j>> \in {d \in (1..Len(g)) \X (1..MaxCells) : d[2] <= Len(g[d[1]])}} \ {0}

\* C15: the one-colour and the two-colour detector never both hold of a
\* grid; the n-colour detector holds for exactly one n, the number of
\* distinct colours besides the background; and the one-colour detector
\* agrees with the n-colour detector at n = 1.
C15_ColorCardinalityIsExact ==
    pc = "colors counted" =>
        /\ ~({Verdict("areAllCellsOneColorOrBlack", 1), Verdict("areAllCellsNColorsOrBlack", 2)}
              \subseteq result.props)
        /\ {v.n : v \in {w \in result.props : w.detector = "areAllCellsNColorsOrBlack"}}
              = {Cardinality(ColorsOf(grid))}
        /\ (Verdict("areAllCellsOneColorOrBlack", 1) \in result.props
              <=> Verdict("areAllCellsNColorsOrBlack", 1) \in result.props)
C15_Witness ==
    /\ pc = "colors counted"
    /\ grid = <<<<1, 0>>, <<2, 1>>>>
    /\ result.props = {Verdict("areAllCellsNColorsOrBlack", 2)}

\* C17 (as claimed): the column count of a grid is the length of its row 0
\* and the row count its number of rows, so MoreInputColumnsThanOutputColumn
\* is recorded exactly when input row 0 is longer than output row 0, and
\* MoreInputRowsThanOutputRows exactly when the input has more rows than
\* the output.
C17_CountsAreRowZeroLengthAndRowNumber ==
    (pc = "done" /\ rev = "properties"
     /\ GridInvariant(orig.input) /\ GridInvariant(orig.output)) =>
        /\ getNumberOfInputColumns(orig) = Len(orig.input[1])
        /\ getNumberOfOutputColumns(orig) = Len(orig.output[1])
        /\ getNumberOfInputRows(orig) = Len(orig.input)
        /\ getNumberOfOutputRows(orig) = Len(orig.output)
        /\ ("MoreInputColumnsThanOutputColumn" \in result.props
              <=> Len(orig.input[1]) > Len(orig.output[1]))
        /\ ("MoreInputRowsThanOutputRows" \in result.props
              <=> Len(orig.input) > Len(orig.output))

\* the terminal conditions of steps 1-5, in the order of the chain; steps 4
\* and 5 test the working input their dedup leaves
AfterStepFour(s) ==
    IF isTheOutputOneRowHigh(s) /\ areThereMoreInputColumnsThanOutputColumns(s)
    THEN [s EXCEPT !.input = dedupColumns(s.input)] ELSE s
AfterStepFive(s) ==
    IF isTheOutputOneColumnWide(s) /\ areThereMoreInputRowsThanOutputRows(s)
    THEN [s EXCEPT !.input = dedupRows(s.input)] ELSE s
SomeTerminalConditionHolds(s) ==
    \/ doInputAndOutputGridsHaveTheSameDimensions(s) /\ areInputAndOutputGridsIdentical(s)
    \/ areInputAndOutputColumnsOfTheSameSize(s) /\ processInputAndOutputHavingColumnsOfTheSameSize(s)
    \/ areInputAndOutputRowsOfTheSameSize(s) /\ processInputAndOutputHavingRowsOfTheSameSize(s)
    \/ /\ AfterStepFour(s) # s
       /\ processInputAndOutputHavingRowsOfTheSameSize(AfterStepFour(s))
    \/ /\ isTheOutputOneColumnWide(s) /\ areThereMoreInputRowsThanOutputRows(AfterStepFour(s))
       /\ processInputAndOutputHavingColumnsOfTheSameSize(AfterStepFive(AfterStepFour(s)))

\* C18 (as claimed): the solver's result carries a solution exactly when a
\* terminal condition of steps 1-5 holds of the sample; when none holds the
\* result is a property map without a solution key that holds every
\* property true of the sample.
C18_SolutionIffTerminalElsePropertyMap ==
    (pc = "done" /\ GridInvariant(orig.input) /\ GridInvariant(orig.output)) =>
        /\ (HasSolution(result) <=> SomeTerminalConditionHolds(orig))
        /\ (~SomeTerminalConditionHolds(orig) =>
              /\ result.kind = "Object"
              /\ "solution" \notin result.props
              /\ solve_sample(orig) \subseteq result.props)

\* C19 (as claimed): on a grid whose columns are all equal dedupRows
\* returns each distinct row once, in the order of its first occurrence.
C19_DistinctRowsInFirstSeenOrder ==
    (pc = "rows deduped" /\ GridInvariant(grid) /\ ColumnsAllEqual(grid)) =>
        result.grid = SetSpread(<<>>, grid)

\* C20 (as claimed): OutputRowMatchAnyRowsOfTheInput is recorded exactly
\* when output row 1 equals at least one input row, whatever the other
\* input rows are.
C20_OutputRowMatchesSomeInputRow ==
    (pc = "done" /\ rev = "properties"
     /\ GridInvariant(orig.input) /\ GridInvariant(orig.output)) =>
        ("OutputRowMatchAnyRowsOfTheInput" \in result.props
           <=> \E i \in 1..Len(orig.input) : orig.input[i] = orig.output[1])

\* C16: for every aggregate that holds the tasks of the run and every
\* property of the fixed list, the entry of the frequency table is the
\* number of tasks all of whose stored samples are maps that hold the
\* property, a task with one stored sample that lacks it not counted; and
\* computing the table leaves the aggregate unchanged.
C16_TableCountsTasksWhereEverySampleHolds ==
    [][(pc = "aggregate" /\ pc' = "tabulated") =>
          /\ aggregate' = aggregate
          /\ (propertyTable'.kind # "Throw" =>
                \A i \in 1..Len(propertyList) :
                    propertyTable'.counts[propertyList[i]] =
                        Cardinality({t \in DOMAIN aggregate :
                            \A k \in DOMAIN aggregate[t] :
                                /\ aggregate[t][k].kind = "Object"
                                /\ propertyList[i] \in aggregate[t][k].props})
                    )]_vars
\* one task holds InputSquare in every stored sample, the other in one of
\* its two: the table counts 1
C16_Witness ==
    /\ pc = "tabulated"
    /\ DOMAIN aggregate = {"00000000", "007bbfb7"}
    /\ DOMAIN aggregate["00000000"] = {TestKey, 1}
    /\ \A k \in {TestKey, 1} : "InputSquare" \in aggregate["00000000"][k].props
    /\ DOMAIN aggregate["007bbfb7"] = {TestKey, 1}
    /\ "InputSquare" \in aggregate["007bbfb7"][TestKey].props
    /\ aggregate["007bbfb7"][1].kind = "String"
    /\ propertyTable.counts["InputSquare"] = 1
    /\ propertyTable.counts["OutputSquare"] = 0

\* C21 (as claimed): OutputColumnMatchAnyColumnsOfTheInput is recorded
\* exactly when output column 1 equals at least one column of the input,
\* every input column considered whatever the shape of the input.
C21_OutputColumnMatchesSomeInputColumn ==
    (pc = "done" /\ rev = "properties"
     /\ GridInvariant(orig.input) /\ GridInvariant(orig.output)) =>
        ("OutputColumnMatchAnyColumnsOfTheInput" \in result.props
           <=> \E j \in 1..Len(orig.input[1]) :
                  [i \in 1..Len(orig.input) |-> orig.input[i][j]]
                  = [i \in 1..Len(orig.output) |-> orig.output[i][1]])

\* C23: on grids that satisfy the Grid invariant the scaled-up detector
\* holds exactly when some integer k >= 2 gives output rows = k x input
\* rows and output columns = k x input columns; never when the two factors
\* differ, or the common factor is 1 or no integer.
C23_ScaledUpIffCommonIntegerFactor ==
    (GridInvariant(orig.input) /\ GridInvariant(orig.output)) =>
        /\ (isInputGridScaledUpByIntegerFactor(orig)
              <=> \E k \in 2..MaxCells :
                     /\ Len(orig.output) = k * Len(orig.input)
                     /\ Len(orig.output[1]) = k * Len(orig.input[1]))
        /\ (pc = "done" /\ rev = "properties" =>
              ("InputGridScaledUpByIntegerFactor" \in result.props
                 <=> isInputGridScaledUpByIntegerFactor(orig)))
C23_Witness ==
    /\ pc = "done" /\ rev = "properties"
    /\ orig.input = <<<<0>>>>
    /\ orig.output = <<<<0, 1>>, <<1, 0>>>>
    /\ "InputGridScaledUpByIntegerFactor" \in result.props

\* C22 (as claimed): for every rectangular grid, single-row grids included,
\* dedupColumns gives the grid that transposing, reducing the rows and
\* transposing back gives.
C22_DedupColumnsIsDedupRowsOfTranspose ==
    (pc = "rows of the transpose deduped" /\ GridInvariant(grid)) =>
        result.grid = dedupColumns(grid)

\* C24 (as claimed): for n = 1, 2 the combined colour property is recorded
\* exactly when the input and the output each hold exactly n colours
\* besides the background and the two sets of colours are equal as sets,
\* whatever the order the colours first appear in.
C24_CombinedColorsCompareAsSets ==
    (pc = "colors compared"
     /\ GridInvariant(sample.input) /\ GridInvariant(sample.output)) =>
        /\ "AllInputAndOutputCellsOneColorOrBlack" \in result.props
             <=> /\ Cardinality(ColorsOf(sample.input) \ {0}) = 1
                 /\ ColorsOf(sample.input) \ {0} = ColorsOf(sample.output) \ {0}
        /\ "AllInputAndOutputCellsTwoColorsOrBlack" \in result.props
             <=> /\ Cardinality(ColorsOf(sample.input) \ {0}) = 2
                 /\ ColorsOf(sample.input) \ {0} = ColorsOf(sample.output) \ {0}

\* C25 (as claimed): steps 1 to 3 read the sample as it was given and
\* leave it alone; step 4 replaces the input by another grid only when
\* the input's row length differs from the output's, step 5 only when the
\* input's row count differs from the output's.
C25_RewritesOnlyWhenSizesDiffer ==
    [][(rev = "chain" /\ GridInvariant(orig.input) /\ GridInvariant(orig.output)) =>
          /\ step' \in 1..3 => sample = orig /\ sample' = sample
          /\ (step' = 4 /\ sample'.input # sample.input)
                => Len(sample.input[1]) # Len(sample.output[1])
          /\ (step' = 5 /\ sample'.input # sample.input)
                => Len(sample.input) # Len(sample.output)]_vars

\* C26: no step of either solve_sample changes sample.output; the sample
\* changes only in step 4 or step 5 of the chain, where sample.input is
\* replaced by what dedupColumns, respectively dedupRows, returns for it; a
\* call that reaches neither rewrite, every property-map call included,
\* ends with the sample it was given.
C26_OnlyTheInputIsReplaced ==
    [][/\ sample'.output = sample.output
       /\ sample' # sample =>
             /\ rev = "chain"
             /\ \/ step' = 4 /\ sample'.input = dedupColumns(sample.input)
                \/ step' = 5 /\ sample'.input = dedupRows(sample.input)
       /\ (pc' = "done" /\ (rev = "properties" \/ step' < 4)) => sample' = orig]_vars
C26_Witness ==
    /\ pc = "done" /\ rev = "chain" /\ step = 5
    /\ sample.input # orig.input
    /\ sample.output = orig.output

C29_SolutionIsFixedByTheWorkingInput ==
    (pc = "done" /\ rev = "chain" /\ result.kind = "Array") =>
        /\ result.grid = sample.output
        /\ step \in 1..5
        /\ step = 1 => result.grid = sample.input
        /\ step \in {2, 5} =>
              /\ ColumnsAllEqual(sample.input)
              /\ result.grid = [i \in 1..Len(sample.input) |-> <<sample.input[i][1]>>]
        /\ step \in {3, 4} =>
              /\ RowsAllEqual(sample.input)
              /\ result.grid = <<sample.input[1]>>
C29_Witness ==
    /\ pc = "done" /\ rev = "chain" /\ result.kind = "Array"
    /\ step = 5
    /\ orig.input = <<<<0, 0>>, <<1, 1>>, <<1, 1>>>>
    /\ sample.input = <<<<0, 0>>, <<1, 1>>>>
    /\ result.grid = <<<<0>>, <<1>>>>

\* C27: a test of task T changes no aggregate entry but T's, removes no
\* entry and no stored key, and stores only keys of T's file; when every
\* test has run, in whatever order of tasks and of samples, the entry of
\* each task whose test call returned holds exactly the keys sample_1 ..
\* sample_N and test with the values solveTask returned, and the table is
\* the one those values give.
C27_RecordingIsPerTaskAndOrderFree ==
    [][/\ \A cb \in visited' \ visited :
            /\ DOMAIN aggregate' \subseteq DOMAIN aggregate \cup {cb[1]}
            /\ \A t \in DOMAIN aggregate :
                  /\ t \in DOMAIN aggregate'
                  /\ t # cb[1] => aggregate'[t] = aggregate[t]
                  /\ \A k \in DOMAIN aggregate[t] :
                        k \in DOMAIN aggregate'[t] /\ aggregate'[t][k] = aggregate[t][k]
            /\ cb[1] \in DOMAIN aggregate' =>
                  DOMAIN aggregate'[cb[1]] \subseteq DOMAIN task_files[cb[1]]
       /\ pc' = "tabulated" =>
            LET returned == {t \in DOMAIN task_files : task_files[t][TestKey] # Thrown}
            IN  /\ aggregate' = [t \in returned |-> task_files[t]]
                /\ propertyTable' =
                      IF returned = DOMAIN task_files
                      THEN [kind |-> "Object",
                            counts |-> [property \in {propertyList[i] : i \in 1..Len(propertyList)} |->
                               Cardinality({t \in returned :
                                  \A k \in DOMAIN task_files[t] :
                                     /\ task_files[t][k].kind = "Object"
                                     /\ property \in task_files[t][k].props})]]
                      ELSE [NoTable EXCEPT !.kind = "Throw"]]_vars
C27_Witness ==
    /\ pc = "tabulated"
    /\ DOMAIN aggregate = {"00000000", "007bbfb7"}
    /\ DOMAIN aggregate["00000000"] = {TestKey, 1, 2}
    /\ DOMAIN aggregate["007bbfb7"] = {TestKey, 1}
    /\ aggregate["00000000"][2].kind = "String"
    /\ propertyTable.kind = "Object"

\* C30: when a call of the chain solver returns a grid, a second call on
\* the same sample object, whose input the first call may have replaced by
\* a dedup result, returns the same grid.
C30_SecondCallReturnsTheSameSolution ==
    (pc = "done" /\ first # NoResult) => result = first
\* the first call returned in step 4 after reducing the input, the second
\* one returns in step 3 on the reduced input
C30_Witness ==
    /\ pc = "done" /\ first.kind = "Array"
    /\ sample.input # orig.input
    /\ step = 3
    /\ result = first

====
